---- MODULE Spec2Model ----
(***************************************************************************)
(* Tenant connection routing of Aymane7911/Bee.                            *)
(*                                                                         *)
(* src/src/lib/prisma-manager.ts holds two connection managers:            *)
(*   lines 1-118    the prisma-manager registry (tenantClients,            *)
(*                  masterPrisma, getPrismaClientByDatabaseId,             *)
(*                  disconnectAllClients);                                 *)
(*   lines 398-1035 the database-connection registry (dbConnections,       *)
(*                  masterDb, getDatabaseConnection and its callers,       *)
(*                  cleanupStaleConnections, the drains, the fan-out).     *)
(*                                                                         *)
(* A process is one in-flight call.  One action is one run of the event    *)
(* loop: the code from the resolution of an awaited network operation (a   *)
(* master query, $connect, $disconnect, a timer, the caller's query) to    *)
(* the next such await.  An await of an async function that returns        *)
(* without network I/O is not a scheduling point of its own.               *)
(***************************************************************************)
EXTENDS Integers, Sequences, FiniteSets, TLC

VARIABLES
  env,            \* process.env: the three variables that can name the master database
  catalog,        \* the master catalog: the rows of the `database` table, in table order
  dbConnections,  \* Map<string, ConnectionInfo>, in insertion order
  tenantClients,  \* Map<string, PrismaClient> of prisma-manager, in insertion order
  masterPrisma,   \* prisma-manager's lazily created master handle, or NoHandle
  handles,        \* every PrismaClient object constructed so far
  now,            \* the clock read by new Date()
  procs           \* the in-flight calls

vars == <<env, catalog, dbConnections, tenantClients, masterPrisma, handles, now, procs>>

----------------------------------------------------------------------------
(* Program constants: CONNECTION_CONFIG and the batch size of the fan-out. *)

MASTER_CONNECTION_LIMIT == 3
TENANT_CONNECTION_LIMIT == 2
CONNECTION_TIMEOUT == 30000
IDLE_TIMEOUT == 60000
MAX_RETRIES == 3
RETRY_DELAY == 1000
batchSize == 3

(* Bounds of the model. *)

\* PrismaClient objects for tenants constructed in one run of the system
MaxHandles == 4
\* drains (disconnectAllDatabases, disconnectAllClients) in one run of the system
MaxDrains == 1
\* advances of the clock in one run of the system
MaxTicks == 1

----------------------------------------------------------------------------
(* Values. *)

Tenants == {"A", "B", "C", "D"}

\* A handle is named by the tenant it was constructed for and a serial number.
NoHandle == <<"none", 0>>
MasterDbHandle == <<"masterDb", 1>>

NoMessage == [text |-> "", id |-> "", attempts |-> 0, cause |-> ""]
Message(text) == [text |-> text, id |-> "", attempts |-> 0, cause |-> ""]

NoResult == [ok |-> FALSE, value |-> NoHandle, error |-> NoMessage]
Ok(h) == [ok |-> TRUE, value |-> h, error |-> NoMessage]
Err(m) == [ok |-> FALSE, value |-> NoHandle, error |-> m]

Min(S) == CHOOSE x \in S : \A y \in S : x <= y

----------------------------------------------------------------------------
(* JavaScript Map, kept as the sequence of its entries in insertion order. *)

MapKeys(m) == [i \in 1..Len(m) |-> m[i].id]
MapHas(m, k) == \E i \in 1..Len(m) : m[i].id = k
MapGet(m, k) == m[CHOOSE i \in 1..Len(m) : m[i].id = k]
\* (mutant) set leaves an existing entry as it is
MapSet_KeepFirst(m, e) == IF \E i \in 1..Len(m) : m[i].id = e.id THEN m ELSE Append(m, e)

MapSet(m, e) ==
  IF MapHas(m, e.id)
  THEN [i \in 1..Len(m) |-> IF m[i].id = e.id THEN e ELSE m[i]]
  ELSE Append(m, e)
MapDelete(m, k) == SelectSeq(m, LAMBDA e : e.id # k)
KeySet(m) == {m[i].id : i \in 1..Len(m)}

----------------------------------------------------------------------------
(* Connection strings.  A string is empty, blank (whitespace only), not    *)
(* parsable by new URL() ("malformed"), or a URL with a base and its query *)
(* parameters in order: "url" as URL.toString() writes it, "URL" in a      *)
(* spelling that toString() normalises (an upper-case scheme or host, say). *)

EmptyUrl == [form |-> "empty", base |-> "", q |-> <<>>]
BlankUrl == [form |-> "blank", base |-> " ", q |-> <<>>]
UrlOf(t) == [form |-> "url", base |-> t, q |-> <<>>]
Malformed(t) == [form |-> "malformed", base |-> t, q |-> <<>>]
Thrown == [form |-> "thrown", base |-> "", q |-> <<>>]

\* !databaseUrl || databaseUrl.trim() === ''
IsBlank(u) == u.form \in {"empty", "blank"}

\* (mutant) set appends without looking for the name
SearchParamsSet_Append(q, n, v) == Append(q, [name |-> n, value |-> v])

\* URLSearchParams.set: replace the value of the first pair named n and drop
\* the other pairs of that name, or append the pair.
SearchParamsSet(q, n, v) ==
  IF \E i \in 1..Len(q) : q[i].name = n
  THEN LET first == Min({i \in 1..Len(q) : q[i].name = n})
           kept == {i \in 1..Len(q) : q[i].name # n \/ i = first}
           Nth(k) == CHOOSE i \in kept : Cardinality({j \in kept : j <= i}) = k
       IN [k \in 1..Cardinality(kept) |->
             IF Nth(k) = first THEN [name |-> n, value |-> v] ELSE q[Nth(k)]]
  ELSE Append(q, [name |-> n, value |-> v])

\* new URL(s): throws on a string that is not a URL
NewURL(s) == IF s.form \in {"url", "URL"} THEN [ok |-> TRUE, url |-> s]
             ELSE [ok |-> FALSE, url |-> s]
\* url.toString(): the normalised spelling
UrlToString(u) == [u EXCEPT !.form = "url"]

\* the four searchParams.set calls
WithPoolParams(q, connectionLimit) ==
  SearchParamsSet(
    SearchParamsSet(
      SearchParamsSet(
        SearchParamsSet(q, "connection_limit", ToString(connectionLimit)),
        "pool_timeout", "10"),
      "connect_timeout", "30"),
    "statement_timeout", "30000")

\* (mutant) the error of new URL is not caught
addConnectionPoolParams_NoCatch(databaseUrl, connectionLimit) ==
  IF IsBlank(databaseUrl) THEN databaseUrl
  ELSE IF ~NewURL(databaseUrl).ok THEN Thrown
  ELSE UrlToString([databaseUrl EXCEPT !.q = WithPoolParams(@, connectionLimit)])

addConnectionPoolParams(databaseUrl, connectionLimit) ==
  IF IsBlank(databaseUrl) THEN databaseUrl
  ELSE IF ~NewURL(databaseUrl).ok THEN databaseUrl
  ELSE UrlToString([databaseUrl EXCEPT !.q = WithPoolParams(@, connectionLimit)])

\* getMasterDatabaseUrl(): the first of the three variables that is set to a
\* non-empty string; it throws when there is none or when that one is blank
EnvNames == <<"MASTER_DATABASE_URL", "DATABASE_URL", "POSTGRES_URL">>
masterUrl(e) ==
  IF e.MASTER_DATABASE_URL.form # "empty" THEN e.MASTER_DATABASE_URL
  ELSE IF e.DATABASE_URL.form # "empty" THEN e.DATABASE_URL
  ELSE IF e.POSTGRES_URL.form # "empty" THEN e.POSTGRES_URL
  ELSE EmptyUrl
getMasterDatabaseUrl(e) ==
  IF IsBlank(masterUrl(e))
  THEN [ok |-> FALSE, url |-> EmptyUrl, error |-> "Master database URL is not configured"]
  ELSE [ok |-> TRUE, url |-> masterUrl(e), error |-> ""]

\* the connection string of masterDb: the catch block of the module's
\* initialisation swallows the error of getMasterDatabaseUrl and constructs a
\* client for a dummy database instead
DummyUrl == UrlOf("localhost:5432/dummy")
masterDbUrl(e) ==
  IF getMasterDatabaseUrl(e).ok
  THEN addConnectionPoolParams(getMasterDatabaseUrl(e).url, MASTER_CONNECTION_LIMIT)
  ELSE DummyUrl

----------------------------------------------------------------------------
(* PrismaClient objects.  st: "new" (constructed), "connecting" ($connect  *)
(* called and not settled), "connected", "failed" ($connect rejected),     *)
(* "closed" ($disconnect resolved).  disc counts the calls of $disconnect,  *)
(* queries lists the outcomes of the caller's operations run on the handle. *)

NewClient(u) == [url |-> u, st |-> "new", disc |-> 0, queries |-> <<>>]
FreshHandle(hs, t) == <<t, Cardinality({h \in DOMAIN hs : h[1] = t}) + 1>>
TenantHandles(hs) == {h \in DOMAIN hs : h # <<"masterDb", 1>>}

\* (mutant) the catch block forgets the delete
AfterDisconnect_KeepOnError(db, id, outcome) ==
  IF outcome = "ok" THEN MapDelete(db, id) ELSE db

\* the registry after the $disconnect awaited by disconnectDatabase settled:
\* the try block and the catch block both delete the entry
AfterDisconnect(db, id, outcome) == MapDelete(db, id)

\* client.$disconnect() is called
CallDisconnect(hs, h) == [hs EXCEPT ![h].disc = @ + 1]
\* and settles: resolved, or rejected with the handle left as it was
SettleDisconnect(hs, h, outcome) ==
  IF outcome = "ok" THEN [hs EXCEPT ![h].st = "closed"] ELSE hs

----------------------------------------------------------------------------
(* Calls in flight. *)

Callers == {<<"p", 1>>, <<"p", 2>>}
Workers == {<<"w", j>> : j \in 1..batchSize}
Procs == Callers \cup Workers

NoRow == [id |-> "", isActive |-> FALSE, databaseUrl |-> EmptyUrl]

Idle ==
  [op |-> "idle", pc |-> "idle", id |-> "", url |-> EmptyUrl,
   stale |-> <<>>, retryCount |-> 0, lastError |-> NoMessage,
   client |-> NoHandle, pending |-> {}, row |-> NoRow,
   list |-> <<>>, i |-> 0, results |-> <<>>,
   \* what the call did, kept for the properties
   connects |-> 0, masterQueries |-> 0, waits |-> <<>>, hit |-> FALSE,
   gdc |-> FALSE, tScan |-> 0, scanned |-> <<>>, overtaken |-> FALSE,
   timedOut |-> FALSE, forced |-> FALSE, replaced |-> NoHandle,
   \* the registries and the handles when the call began
   snap |-> <<>>, snapClients |-> <<>>, snapMaster |-> NoHandle, hs0 |-> <<>>,
   result |-> NoResult]

\* the registry, the handles and the calls, threaded through one run of the
\* event loop
World == [db |-> dbConnections, hs |-> handles, procs |-> procs]

Begin(p, op, id, url) ==
  [World EXCEPT !.procs[p] =
     [Idle EXCEPT !.op = op, !.id = id, !.url = url,
                  !.snap = dbConnections, !.snapClients = tenantClients,
                  !.snapMaster = masterPrisma, !.hs0 = handles]]

\* the call settles.  A batch callback notes whether a callback later in its
\* batch had settled before it.
Finish(w, p, r) ==
  [w EXCEPT !.procs[p].pc = "done", !.procs[p].result = r,
            !.procs[p].overtaken =
               @ \/ (p \in Workers /\ \E k \in Workers :
                       k[2] > p[2] /\ w.procs[k].pc = "done")]

----------------------------------------------------------------------------
(* getDatabaseConnection, from the end of its inline sweep on. *)

\* the caller of getDatabaseConnection resumes with its outcome r
Return(w, p, r) ==
  IF w.procs[p].op = "task"
  THEN IF r.ok
       THEN [w EXCEPT !.procs[p].pc = "queryWait", !.procs[p].client = r.value]
       ELSE Finish(w, p, r)
  ELSE Finish(w, p, r)

ConnectionFailed(id, m) ==
  [text |-> "Failed to connect to database", id |-> id,
   attempts |-> MAX_RETRIES, cause |-> m.text]

\* (mutant) the loop runs while retryCount <= MAX_RETRIES
Catch_OneMore(w, p, m) ==
  LET rc == w.procs[p].retryCount + 1
      w1 == [w EXCEPT !.procs[p].lastError = m, !.procs[p].retryCount = rc]
  IN IF rc <= MAX_RETRIES
     THEN [w1 EXCEPT !.procs[p].pc = "backoff"]
     ELSE Return(w1, p, Err(ConnectionFailed(w.procs[p].id, m)))

\* (mutant) a failed attempt leaves a not-connected entry in the registry
Catch_PartialEntry(w, p, m) ==
  LET rc == w.procs[p].retryCount + 1
      w1 == [w EXCEPT !.procs[p].lastError = m, !.procs[p].retryCount = rc,
                      !.db = MapSet(@, [id |-> w.procs[p].id,
                                        client |-> w.procs[p].client,
                                        lastUsed |-> now, isConnected |-> FALSE,
                                        retryCount |-> rc])]
  IN IF rc < MAX_RETRIES
     THEN [w1 EXCEPT !.procs[p].pc = "backoff"]
     ELSE Return(w1, p, Err(ConnectionFailed(w.procs[p].id, m)))

\* the catch block of the retry loop, and the loop's exit
Catch(w, p, m) ==
  LET rc == w.procs[p].retryCount + 1
      w1 == [w EXCEPT !.procs[p].lastError = m, !.procs[p].retryCount = rc]
  IN IF rc < MAX_RETRIES
     THEN [w1 EXCEPT !.procs[p].pc = "backoff"]
     ELSE Return(w1, p, Err(ConnectionFailed(w.procs[p].id, m)))

\* one iteration of the retry loop up to its await: createOptimizedPrismaClient
\* and the call of $connect
Attempt(w, p) ==
  LET me == w.procs[p] IN
  IF IsBlank(me.url)
  THEN Catch(w, p, Message("Database URL cannot be empty"))
  ELSE LET h == FreshHandle(w.hs, me.id)
           c == NewClient(addConnectionPoolParams(me.url, TENANT_CONNECTION_LIMIT))
       IN [w EXCEPT !.hs = (h :> [c EXCEPT !.st = "connecting"]) @@ @,
                    !.procs[p].client = h,
                    !.procs[p].connects = @ + 1,
                    !.procs[p].pc = "connectWait"]

\* (mutant) the loop's retryCount is stored in the entry
ConnectionInfo_LoopCount(id, client, retryCount) ==
  [id |-> id, client |-> client, lastUsed |-> now,
   isConnected |-> TRUE, retryCount |-> retryCount]

\* (mutant) the entry is stored before it is marked connected
ConnectionInfo_NotConnected(id, client, retryCount) ==
  [id |-> id, client |-> client, lastUsed |-> now,
   isConnected |-> FALSE, retryCount |-> 0]

\* the entry cached by a successful attempt; the loop's retryCount is not stored
ConnectionInfo(id, client, retryCount) ==
  [id |-> id, client |-> client, lastUsed |-> now,
   isConnected |-> TRUE, retryCount |-> 0]

\* (mutant) a hit does not touch lastUsed
Lookup_NoBump(w, p) ==
  LET me == w.procs[p] IN
  IF MapHas(w.db, me.id) /\ MapGet(w.db, me.id).isConnected
  THEN Return([w EXCEPT !.procs[p].hit = TRUE], p, Ok(MapGet(w.db, me.id).client))
  ELSE Attempt(w, p)

\* (mutant) an entry answers a lookup only when its handle was constructed
\* for the connection string of this call
Lookup_CompareUrl(w, p) ==
  LET me == w.procs[p] IN
  IF /\ MapHas(w.db, me.id) /\ MapGet(w.db, me.id).isConnected
     /\ w.hs[MapGet(w.db, me.id).client].url
          = addConnectionPoolParams(me.url, TENANT_CONNECTION_LIMIT)
  THEN LET e == MapGet(w.db, me.id)
       IN Return([w EXCEPT !.db = MapSet(@, [e EXCEPT !.lastUsed = now]),
                           !.procs[p].hit = TRUE],
                 p, Ok(e.client))
  ELSE Attempt(w, p)

\* the cache lookup and what follows it
Lookup(w, p) ==
  LET me == w.procs[p] IN
  IF MapHas(w.db, me.id) /\ MapGet(w.db, me.id).isConnected
  THEN LET e == MapGet(w.db, me.id)
       IN Return([w EXCEPT !.db = MapSet(@, [e EXCEPT !.lastUsed = now]),
                           !.procs[p].hit = TRUE],
                 p, Ok(e.client))
  ELSE IF MapHas(w.db, me.id)
  THEN [w EXCEPT !.hs = CallDisconnect(@, MapGet(w.db, me.id).client),
                 !.procs[p].client = MapGet(w.db, me.id).client,
                 !.procs[p].pc = "evictWait"]
  ELSE Attempt(w, p)

----------------------------------------------------------------------------
(* cleanupStaleConnections and disconnectDatabase. *)

\* (mutant) the threshold is a millisecond late
StaleIds_Late(db) ==
  MapKeys(SelectSeq(db, LAMBDA e : now - e.lastUsed > IDLE_TIMEOUT + 1))

\* (mutant) an entry idle for exactly IDLE_TIMEOUT is stale, too
StaleIds_AtThreshold(db) ==
  MapKeys(SelectSeq(db, LAMBDA e : now - e.lastUsed >= IDLE_TIMEOUT))

\* the scan: the ids of the entries idle for more than IDLE_TIMEOUT
StaleIds(db) ==
  MapKeys(SelectSeq(db, LAMBDA e : now - e.lastUsed > IDLE_TIMEOUT))

\* the ids from the first one that still has an entry
DropAbsent(s, db) ==
  LET present == {i \in 1..Len(s) : MapHas(db, s[i])}
  IN IF present = {} THEN <<>> ELSE SubSeq(s, Min(present), Len(s))

AfterSweep(w, p) ==
  IF w.procs[p].op = "sweep" THEN Finish(w, p, Ok(NoHandle)) ELSE Lookup(w, p)

\* the loop over staleConnections, up to the next $disconnect it awaits
Sweep(w, p) ==
  LET s == DropAbsent(w.procs[p].stale, w.db) IN
  IF s # <<>>
  THEN [w EXCEPT !.hs = CallDisconnect(@, MapGet(w.db, Head(s)).client),
                 !.procs[p].client = MapGet(w.db, Head(s)).client,
                 !.procs[p].stale = s,
                 !.procs[p].pc = "sweepWait"]
  ELSE AfterSweep([w EXCEPT !.procs[p].stale = <<>>], p)

cleanupStaleConnections(w, p) ==
  Sweep([w EXCEPT !.procs[p].stale = StaleIds(w.db),
                  !.procs[p].tScan = now,
                  !.procs[p].scanned = StaleIds(w.db)], p)

getDatabaseConnection(w, p) ==
  cleanupStaleConnections([w EXCEPT !.procs[p].gdc = TRUE,
                                    !.procs[p].snap = w.db,
                                    !.procs[p].hs0 = w.hs], p)

----------------------------------------------------------------------------
(* Actions. *)

Commit(w) ==
  /\ dbConnections' = w.db
  /\ handles' = w.hs
  /\ procs' = w.procs

\* the entry of id would answer a lookup made now
WillHit(id) ==
  /\ MapHas(dbConnections, id)
  /\ MapGet(dbConnections, id).isConnected
  /\ now - MapGet(dbConnections, id).lastUsed <= IDLE_TIMEOUT

CanConstruct(n) == Cardinality(TenantHandles(handles)) + n <= MaxHandles

CallGetDatabaseConnection(p, url, id) ==
  /\ procs[p].pc = "idle"
  /\ CanConstruct(IF IsBlank(url) \/ WillHit(id) THEN 0 ELSE MAX_RETRIES)
  /\ Commit(getDatabaseConnection(Begin(p, "getConn", id, url), p))
  /\ UNCHANGED <<env, catalog, tenantClients, masterPrisma, now>>

\* $connect settles, or the CONNECTION_TIMEOUT timer wins the race
ConnectSettles(p, outcome) ==
  /\ procs[p].pc = "connectWait"
  /\ LET h == procs[p].client IN
     CASE outcome = "ok" ->
            Commit(Return([World EXCEPT !.hs[h].st = "connected",
                                        !.db = MapSet(@, ConnectionInfo(procs[p].id, h,
                                                                       procs[p].retryCount)),
                                        \* the client of the entry written over
                                        !.procs[p].replaced =
                                           IF MapHas(dbConnections, procs[p].id)
                                           THEN MapGet(dbConnections, procs[p].id).client
                                           ELSE NoHandle],
                          p, Ok(h)))
       [] outcome = "error" ->
            Commit(Catch([World EXCEPT !.hs[h].st = "failed"], p,
                         Message("Can't reach database server")))
       [] outcome = "timeout" ->
            Commit(Catch(World, p, Message("Connection timeout")))
  /\ UNCHANGED <<env, catalog, tenantClients, masterPrisma, now>>

\* (mutant) the same delay before every retry
RetryDelay_Fixed(retryCount) == RETRY_DELAY

\* the delay of the setTimeout awaited in the catch block
RetryDelay(retryCount) == RETRY_DELAY * retryCount

\* the backoff timer fires and the loop goes round
BackoffElapses(p) ==
  /\ procs[p].pc = "backoff"
  /\ Commit(Attempt([World EXCEPT !.procs[p].waits =
                       Append(@, RetryDelay(procs[p].retryCount))], p))
  /\ UNCHANGED <<env, catalog, tenantClients, masterPrisma, now>>

\* (mutant) the catch block of disconnectDatabase throws the error on
disconnectDatabaseSettles_Rethrow(outcome) == outcome

\* how the promise of disconnectDatabase settles when its $disconnect settled
\* with outcome: the catch block swallows the error, so it always resolves
disconnectDatabaseSettles(outcome) == "ok"

DisconnectFailed == Message("disconnect failed")

\* the $disconnect awaited by disconnectDatabase settles; both branches
\* delete the entry.  The callers await disconnectDatabase outside any try
\* block, so its rejection would be theirs.
DisconnectSettles(p, outcome) ==
  /\ procs[p].pc \in {"sweepWait", "evictWait", "discWait"}
  /\ LET me == procs[p]
         k == IF me.pc = "sweepWait" THEN Head(me.stale) ELSE me.id
         w == [World EXCEPT !.hs = SettleDisconnect(@, me.client, outcome),
                            !.db = AfterDisconnect(@, k, outcome)]
     IN CASE disconnectDatabaseSettles(outcome) # "ok" ->
               Commit(Finish(w, p, Err(DisconnectFailed)))
          [] me.pc = "sweepWait" ->
               Commit(Sweep([w EXCEPT !.procs[p].stale = Tail(me.stale)], p))
          [] me.pc = "evictWait" -> Commit(Attempt(w, p))
          [] me.pc = "discWait" -> Commit(Finish(w, p, Ok(NoHandle)))
  /\ UNCHANGED <<env, catalog, tenantClients, masterPrisma, now>>

\* the periodic sweep of setInterval
CallCleanupStaleConnections(p) ==
  /\ procs[p].pc = "idle"
  /\ Commit(cleanupStaleConnections(Begin(p, "sweep", "", EmptyUrl), p))
  /\ UNCHANGED <<env, catalog, tenantClients, masterPrisma, now>>

disconnectDatabase(w, p) ==
  LET id == w.procs[p].id IN
  IF MapHas(w.db, id)
  THEN [w EXCEPT !.hs = CallDisconnect(@, MapGet(w.db, id).client),
                 !.procs[p].client = MapGet(w.db, id).client,
                 !.procs[p].pc = "discWait"]
  ELSE Finish(w, p, Ok(NoHandle))

CallDisconnectDatabase(p, id) ==
  /\ procs[p].pc = "idle"
  /\ Commit(disconnectDatabase(Begin(p, "disc", id, EmptyUrl), p))
  /\ UNCHANGED <<env, catalog, tenantClients, masterPrisma, now>>

----------------------------------------------------------------------------
(* The master catalog and the calls that resolve a tenant through it. *)

findUnique(cat, id) ==
  IF \E i \in 1..Len(cat) : cat[i].id = id
  THEN cat[CHOOSE i \in 1..Len(cat) : cat[i].id = id]
  ELSE NoRow

findManyActive(cat) == SelectSeq(cat, LAMBDA r : r.isActive)

MasterQueryFailed(cause) ==
  [text |-> "Master database query failed", id |-> "", attempts |-> 0,
   cause |-> cause]

\* (mutant) a connection string supplied by the caller bypasses the catalog
CallGetDatabaseFromSession_Bypass(p, id, url) ==
  /\ procs[p].pc = "idle"
  /\ CanConstruct(MAX_RETRIES)
  /\ IF IsBlank(url)
     THEN Commit([Begin(p, "session", id, url) EXCEPT
                    !.procs[p].pc = "masterWait", !.procs[p].masterQueries = 1])
     ELSE Commit(getDatabaseConnection(Begin(p, "session", id, url), p))
  /\ UNCHANGED <<env, catalog, tenantClients, masterPrisma, now>>

\* getDatabaseFromSession(databaseId, databaseUrl) up to its master query
CallGetDatabaseFromSession(p, id, url) ==
  /\ procs[p].pc = "idle"
  /\ CanConstruct(MAX_RETRIES)
  /\ Commit([Begin(p, "session", id, url) EXCEPT
               !.procs[p].pc = "masterWait", !.procs[p].masterQueries = 1])
  /\ UNCHANGED <<env, catalog, tenantClients, masterPrisma, now>>

\* getAdminDatabaseConnection(adminSession) hands its two fields over
CallGetAdminDatabaseConnection(p, adminSession) ==
  CallGetDatabaseFromSession(p, adminSession.databaseId, adminSession.databaseUrl)

\* getDatabaseById(databaseId) up to its master query
CallGetDatabaseById(p, id) ==
  /\ procs[p].pc = "idle"
  /\ CanConstruct(MAX_RETRIES)
  /\ Commit([Begin(p, "byId", id, EmptyUrl) EXCEPT
               !.procs[p].pc = "masterWait", !.procs[p].masterQueries = 1])
  /\ UNCHANGED <<env, catalog, tenantClients, masterPrisma, now>>

\* (mutant) the isActive check is missing
Resolve_NoActiveCheck(w, p, database) ==
  IF database = NoRow THEN Finish(w, p, Err(Message("Database not found")))
  ELSE getDatabaseConnection(
         [w EXCEPT !.procs[p].url = database.databaseUrl,
                   !.procs[p].id = database.id], p)

\* what getDatabaseFromSession and getDatabaseById do with the row found
Resolve(w, p, database) ==
  IF database = NoRow THEN Finish(w, p, Err(Message("Database not found")))
  ELSE IF ~database.isActive
  THEN Finish(w, p, Err(Message("Database is not active")))
  ELSE IF w.procs[p].op = "byId"
  THEN getDatabaseConnection(
         [w EXCEPT !.procs[p].url = database.databaseUrl,
                   !.procs[p].id = database.id], p)
  ELSE getDatabaseConnection(w, p)

\* the findUnique raced against the 10 s timer settles
MasterQuerySettles(p, outcome) ==
  /\ procs[p].pc = "masterWait"
  /\ CASE outcome = "ok" ->
            Commit(Resolve([World EXCEPT !.procs[p].row = findUnique(catalog, procs[p].id)],
                           p, findUnique(catalog, procs[p].id)))
       [] outcome = "error" ->
            Commit(Finish(World, p, Err(MasterQueryFailed("Can't reach database server"))))
       [] outcome = "timeout" ->
            Commit(Finish(World, p, Err(MasterQueryFailed("Master DB query timeout"))))
  /\ UNCHANGED <<env, catalog, tenantClients, masterPrisma, now>>

----------------------------------------------------------------------------
(* disconnectAllDatabases. *)

CallDisconnectAllDatabases(p) ==
  /\ procs[p].pc = "idle"
  /\ handles[MasterDbHandle].disc < MaxDrains
  /\ Commit([Begin(p, "drain", "", EmptyUrl) EXCEPT
               !.hs = CallDisconnect(@, MasterDbHandle),
               !.procs[p].pc = "drainMaster"])
  /\ UNCHANGED <<env, catalog, tenantClients, masterPrisma, now>>

----------------------------------------------------------------------------
(* forceCleanupConnections.  Its loop reads each id back from the map it    *)
(* has just cleared, so it finds no entry, awaits nothing and the whole     *)
(* function runs without giving up the event loop.                          *)

\* (mutant) the map is not cleared before the loop
Cleared_Kept(db) == db

\* dbConnections.clear()
Cleared(db) == <<>>

\* the handles after $disconnect has been called on every handle of S
CallDisconnectEach(hs, S) ==
  [h \in DOMAIN hs |-> IF h \in S THEN [hs[h] EXCEPT !.disc = @ + 1] ELSE hs[h]]

forceCleanupConnections(w, p) ==
  LET connectionIds == MapKeys(w.db)
      db1 == Cleared(w.db)
      \* the entries dbConnections.get(id) finds
      found == {MapGet(db1, connectionIds[i]).client :
                  i \in {j \in 1..Len(connectionIds) : MapHas(db1, connectionIds[j])}}
  IN Finish([w EXCEPT !.db = db1, !.hs = CallDisconnectEach(@, found)],
            p, Ok(NoHandle))

CallForceCleanupConnections(p) ==
  /\ procs[p].pc = "idle"
  /\ Commit(forceCleanupConnections(Begin(p, "force", "", EmptyUrl), p))
  /\ UNCHANGED <<env, catalog, tenantClients, masterPrisma, now>>

\* process.exit(0): every call in flight ends with the process
Exit(w, p) ==
  [w EXCEPT !.procs = [k \in Procs |-> [w.procs[k] EXCEPT !.pc = "exited"]]]

\* (mutant) the emergency cleanup runs after a drain that completed, too
DrainCompletes_ThenForce(w, p) ==
  IF w.procs[p].op = "shutdown"
  THEN Exit(forceCleanupConnections([w EXCEPT !.procs[p].forced = TRUE], p), p)
  ELSE Finish(w, p, Ok(NoHandle))

\* disconnectAllDatabases returns; within gracefulShutdown the race is won and
\* the process exits
DrainCompletes(w, p) ==
  IF w.procs[p].op = "shutdown"
  THEN Exit(Finish(w, p, Ok(NoHandle)), p)
  ELSE Finish(w, p, Ok(NoHandle))

\* disconnectAllDatabases rejects; within gracefulShutdown the catch block
\* runs forceCleanupConnections and the process exits
DrainFails(w, p) ==
  IF w.procs[p].op = "shutdown"
  THEN Exit(forceCleanupConnections([w EXCEPT !.procs[p].forced = TRUE], p), p)
  ELSE Finish(w, p, Err(DisconnectFailed))

\* masterDb.$disconnect() settles; then every key's disconnectDatabase runs up
\* to its await
DrainMasterSettles(p, outcome) ==
  /\ procs[p].pc = "drainMaster"
  /\ LET hs1 == SettleDisconnect(handles, MasterDbHandle, outcome)
         awaited == {dbConnections[i].client : i \in 1..Len(dbConnections)}
         hs2 == [h \in DOMAIN hs1 |->
                   IF h \in awaited THEN [hs1[h] EXCEPT !.disc = @ + 1] ELSE hs1[h]]
         w == [World EXCEPT !.hs = hs2,
                            !.procs[p].pending =
                               {[id |-> dbConnections[i].id,
                                 client |-> dbConnections[i].client] :
                                  i \in 1..Len(dbConnections)}]
     IN IF dbConnections = <<>>
        THEN Commit(DrainCompletes(w, p))
        ELSE Commit([w EXCEPT !.procs[p].pc = "drainWait"])
  /\ UNCHANGED <<env, catalog, tenantClients, masterPrisma, now>>

\* one of the disconnectDatabase calls gathered by Promise.all settles
DrainSettles(p, outcome) ==
  /\ procs[p].pc = "drainWait"
  /\ \E d \in procs[p].pending :
       LET w == [World EXCEPT !.hs = SettleDisconnect(@, d.client, outcome),
                              !.db = AfterDisconnect(@, d.id, outcome),
                              !.procs[p].pending = @ \ {d}]
       IN IF disconnectDatabaseSettles(outcome) # "ok"
          THEN \* Promise.all rejects with the first rejection
               Commit(DrainFails(w, p))
          ELSE IF procs[p].pending = {d}
          THEN Commit(DrainCompletes(w, p))
          ELSE Commit(w)
  /\ UNCHANGED <<env, catalog, tenantClients, masterPrisma, now>>

----------------------------------------------------------------------------
(* gracefulShutdown. *)

\* a termination signal: gracefulShutdown up to the first await of
\* disconnectAllDatabases
CallGracefulShutdown(p) ==
  /\ procs[p].pc = "idle"
  /\ Commit([Begin(p, "shutdown", "", EmptyUrl) EXCEPT
               !.hs = CallDisconnect(@, MasterDbHandle),
               !.procs[p].pc = "drainMaster"])
  /\ UNCHANGED <<env, catalog, tenantClients, masterPrisma, now>>

\* the 10 s timer wins the race: the catch block runs forceCleanupConnections,
\* then the process exits
ShutdownTimeout(p) ==
  /\ procs[p].op = "shutdown"
  /\ procs[p].pc \in {"drainMaster", "drainWait"}
  /\ Commit(Exit(forceCleanupConnections(
                   [World EXCEPT !.procs[p].timedOut = TRUE,
                                 !.procs[p].forced = TRUE], p), p))
  /\ UNCHANGED <<env, catalog, tenantClients, masterPrisma, now>>

----------------------------------------------------------------------------
(* executeAcrossAllDatabases.  The callbacks of one batch are the calls     *)
(* <<"w", 1>> .. <<"w", batchSize>>.                                        *)

FailedToRetrieve(cause) ==
  [text |-> "Failed to retrieve active databases", id |-> "", attempts |-> 0,
   cause |-> cause]

\* executeAcrossAllDatabases(queryFunction) up to the findMany of
\* getAllActiveDatabases
CallExecuteAcrossAllDatabases(p) ==
  /\ procs[p].pc = "idle"
  /\ \A k \in Workers : procs[k].pc = "idle"
  /\ CanConstruct(MAX_RETRIES)
  /\ Commit([Begin(p, "fanout", "", EmptyUrl) EXCEPT
               !.procs[p].pc = "listWait", !.procs[p].masterQueries = 1])
  /\ UNCHANGED <<env, catalog, tenantClients, masterPrisma, now>>

\* the callback of batch.map for one database, up to its first await
StartTask(w, k, database) ==
  getDatabaseConnection(
    [w EXCEPT !.procs[k] = [Idle EXCEPT !.op = "task", !.id = database.id,
                                        !.url = database.databaseUrl,
                                        !.row = database]], k)

\* databases.slice(i, i + batchSize)
Batch(list, i) == SubSeq(list, i + 1, IF i + batchSize < Len(list) THEN i + batchSize ELSE Len(list))

\* one round of the for loop up to its Promise.all, or the return
StartBatch(w, p) ==
  LET me == w.procs[p]
      batch == Batch(me.list, me.i)
      w1 == IF Len(batch) >= 1 THEN StartTask(w, <<"w", 1>>, batch[1]) ELSE w
      w2 == IF Len(batch) >= 2 THEN StartTask(w1, <<"w", 2>>, batch[2]) ELSE w1
      w3 == IF Len(batch) >= 3 THEN StartTask(w2, <<"w", 3>>, batch[3]) ELSE w2
  IN IF me.i < Len(me.list)
     THEN [w3 EXCEPT !.procs[p].pc = "batchWait"]
     ELSE Finish(w, p, Ok(NoHandle))

\* the findMany raced against the 15 s timer settles
ListSettles(p, outcome) ==
  /\ procs[p].pc = "listWait"
  /\ CASE outcome = "ok" ->
            Commit(StartBatch([World EXCEPT !.procs[p].list = findManyActive(catalog),
                                            !.procs[p].i = 0,
                                            !.procs[p].results = <<>>], p))
       [] outcome = "error" ->
            Commit(Finish(World, p, Err(FailedToRetrieve("Can't reach database server"))))
       [] outcome = "timeout" ->
            Commit(Finish(World, p, Err(FailedToRetrieve("Master DB query timeout"))))
  /\ UNCHANGED <<env, catalog, tenantClients, masterPrisma, now>>

\* queryFunction(db, database) settles
QuerySettles(k, outcome) ==
  /\ procs[k].pc = "queryWait"
  /\ LET h == procs[k].client
         w == [World EXCEPT !.hs[h].queries = Append(@, outcome)]
     IN IF outcome = "ok"
        THEN Commit(Finish(w, k, Ok(h)))
        ELSE Commit(Finish(w, k, Err(Message("query failed"))))
  /\ UNCHANGED <<env, catalog, tenantClients, masterPrisma, now>>

\* (mutant) a callback that failed contributes no entry
TaskResult_DropFailed(me) ==
  IF me.result.ok
  THEN <<[databaseId |-> me.row.id, result |-> me.result.value, error |-> ""]>>
  ELSE <<>>

\* what the callback of batch.map returns
TaskResult(me) ==
  IF me.result.ok
  THEN <<[databaseId |-> me.row.id, result |-> me.result.value, error |-> ""]>>
  ELSE <<[databaseId |-> me.row.id, result |-> NoHandle,
          error |-> me.result.error.text]>>

\* (mutant) the batch's entries in the reverse of the batch order
BatchResults_Reversed(ps, n) ==
  (IF n >= 3 THEN TaskResult(ps[<<"w", 3>>]) ELSE <<>>)
  \o (IF n >= 2 THEN TaskResult(ps[<<"w", 2>>]) ELSE <<>>)
  \o (IF n >= 1 THEN TaskResult(ps[<<"w", 1>>]) ELSE <<>>)

\* what Promise.all(batchPromises) resolves to: the callbacks' values in the
\* order of the batch
BatchResults(ps, n) ==
  (IF n >= 1 THEN TaskResult(ps[<<"w", 1>>]) ELSE <<>>)
  \o (IF n >= 2 THEN TaskResult(ps[<<"w", 2>>]) ELSE <<>>)
  \o (IF n >= 3 THEN TaskResult(ps[<<"w", 3>>]) ELSE <<>>)

\* (mutant) the batch is awaited with Promise.race: one settled callback is
\* enough
AllSettled_Any(ps, running) == \E k \in running : ps[k].pc = "done"

\* Promise.all(batchPromises) resolves once every callback has settled; a
\* callback catches its error, so none of them rejects
AllSettled(ps, running) == \A k \in running : ps[k].pc = "done"

\* Promise.all of the batch resolves: results.push(...batchResults), and the
\* loop goes round
BatchCompletes(p) ==
  /\ procs[p].pc = "batchWait"
  /\ LET n == Len(Batch(procs[p].list, procs[p].i))
         running == {<<"w", j>> : j \in 1..n}
         batchResults == BatchResults(procs, n)
     IN /\ AllSettled(procs, running)
        /\ Commit(StartBatch(
             [World EXCEPT !.procs = [k \in Procs |->
                IF k \in running THEN Idle
                ELSE IF k = p
                THEN [procs[p] EXCEPT !.results = @ \o batchResults,
                                      !.i = @ + batchSize,
                                      !.overtaken =
                                         @ \/ \E j \in running : procs[j].overtaken]
                ELSE procs[k]]], p))
  /\ UNCHANGED <<env, catalog, tenantClients, masterPrisma, now>>

----------------------------------------------------------------------------
(* The prisma-manager registry: getMasterPrismaClient, getDatabaseInfo,    *)
(* getPrismaClientByDatabaseId, disconnectAllClients.                      *)

\* process.env.DATABASE_URL
DATABASE_URL == env.DATABASE_URL

\* (mutant) a client is constructed at every request
getMasterPrismaClient_AlwaysNew(hs, mp) ==
  [client |-> FreshHandle(hs, "master"),
   hs |-> (FreshHandle(hs, "master") :> NewClient(DATABASE_URL)) @@ hs]

\* getMasterPrismaClient() where DATABASE_URL is set: the cached client, or a
\* client constructed now
getMasterPrismaClient(hs, mp) ==
  IF mp # NoHandle THEN [client |-> mp, hs |-> hs]
  ELSE [client |-> FreshHandle(hs, "master"),
        hs |-> (FreshHandle(hs, "master") :> NewClient(DATABASE_URL)) @@ hs]

\* the handle getMasterPrismaClient() returns, and the handles after it
MasterClient(hs, mp) == getMasterPrismaClient(hs, mp).client
WithMasterClient(hs, mp) == getMasterPrismaClient(hs, mp).hs

\* a request for the master client by itself
CallGetMasterPrismaClient(p) ==
  /\ procs[p].pc = "idle"
  /\ CanConstruct(1)
  /\ IF masterPrisma = NoHandle /\ DATABASE_URL.form = "empty"
     THEN /\ procs' = Finish(Begin(p, "master", "", EmptyUrl), p,
                             Err(Message("DATABASE_URL environment variable is not set."))).procs
          /\ UNCHANGED <<handles, masterPrisma>>
     ELSE /\ procs' = Finish(Begin(p, "master", "", EmptyUrl), p,
                             Ok(MasterClient(handles, masterPrisma))).procs
          /\ handles' = WithMasterClient(handles, masterPrisma)
          /\ masterPrisma' = MasterClient(handles, masterPrisma)
  /\ UNCHANGED <<env, catalog, dbConnections, tenantClients, now>>

ClientEntry(id, client) == [id |-> id, client |-> client]

\* getPrismaClientByDatabaseId(databaseId) up to the findUnique of
\* getDatabaseInfo, or to its return on a cached client
CallGetPrismaClientByDatabaseId(p, id) ==
  /\ procs[p].pc = "idle"
  /\ CanConstruct(2)
  /\ IF MapHas(tenantClients, id)
     THEN /\ procs' = Finish(Begin(p, "client", id, EmptyUrl), p,
                             Ok(MapGet(tenantClients, id).client)).procs
          /\ UNCHANGED <<handles, masterPrisma>>
     ELSE IF masterPrisma = NoHandle /\ DATABASE_URL.form = "empty"
     THEN \* getMasterPrismaClient throws, outside the try of getDatabaseInfo
          /\ procs' = Finish(Begin(p, "client", id, EmptyUrl), p,
                             Err(Message("DATABASE_URL environment variable is not set."))).procs
          /\ UNCHANGED <<handles, masterPrisma>>
     ELSE /\ procs' = [Begin(p, "client", id, EmptyUrl) EXCEPT
                         !.procs[p].pc = "infoWait",
                         !.procs[p].masterQueries = 1].procs
          /\ handles' = WithMasterClient(handles, masterPrisma)
          /\ masterPrisma' = MasterClient(handles, masterPrisma)
  /\ UNCHANGED <<env, catalog, dbConnections, tenantClients, now>>

\* the row getDatabaseInfo returns as { name, url }, or null: the findUnique
\* selects name and databaseUrl and does not read isActive
getDatabaseInfo(cat, id, outcome) ==
  IF outcome = "ok" THEN findUnique(cat, id) ELSE NoRow

\* the findUnique of getDatabaseInfo settles; a client is constructed for the
\* row found and stored
InfoSettles(p, outcome) ==
  /\ procs[p].pc = "infoWait"
  /\ LET id == procs[p].id
         dbInfo == getDatabaseInfo(catalog, id, outcome)
         h == FreshHandle(handles, id)
     IN IF dbInfo = NoRow
        THEN /\ procs' = Finish(World, p, Ok(NoHandle)).procs
             /\ UNCHANGED <<handles, tenantClients>>
        ELSE /\ handles' = (h :> NewClient(dbInfo.databaseUrl)) @@ handles
             /\ tenantClients' = MapSet(tenantClients, ClientEntry(id, h))
             /\ procs' = Finish([World EXCEPT !.procs[p].row = dbInfo,
                                              !.procs[p].client = h], p, Ok(h)).procs
  /\ UNCHANGED <<env, catalog, dbConnections, masterPrisma, now>>

\* disconnectAllClients() up to its Promise.all: $disconnect is called on
\* every tenant client and on the master client
CallDisconnectAllClients(p) ==
  /\ procs[p].pc = "idle"
  /\ LET awaited == {tenantClients[i].client : i \in 1..Len(tenantClients)}
                      \cup (IF masterPrisma # NoHandle THEN {masterPrisma} ELSE {})
         w == [Begin(p, "clientsDrain", "", EmptyUrl) EXCEPT
                 !.procs[p].pending = awaited]
     IN /\ handles' = [h \in DOMAIN handles |->
                         IF h \in awaited THEN [handles[h] EXCEPT !.disc = @ + 1]
                         ELSE handles[h]]
        /\ IF awaited = {}
           THEN /\ procs' = Finish(w, p, Ok(NoHandle)).procs
                /\ tenantClients' = <<>>
                /\ masterPrisma' = NoHandle
           ELSE /\ procs' = [w EXCEPT !.procs[p].pc = "clientsWait"].procs
                /\ UNCHANGED <<tenantClients, masterPrisma>>
  /\ UNCHANGED <<env, catalog, dbConnections, now>>

\* one $disconnect gathered by Promise.all settles (a rejection is caught);
\* after the last one the registry is cleared and the master handle reset
ClientsDrainSettles(p, outcome) ==
  /\ procs[p].pc = "clientsWait"
  /\ \E h \in procs[p].pending :
       /\ handles' = SettleDisconnect(handles, h, outcome)
       /\ IF procs[p].pending = {h}
          THEN /\ procs' = Finish([World EXCEPT !.procs[p].pending = {}], p,
                                  Ok(NoHandle)).procs
               /\ tenantClients' = <<>>
               /\ masterPrisma' = NoHandle
          ELSE /\ procs' = [procs EXCEPT ![p].pending = @ \ {h}]
               /\ UNCHANGED <<tenantClients, masterPrisma>>
  /\ UNCHANGED <<env, catalog, dbConnections, now>>

\* the caller has its answer
Reset(p) ==
  /\ procs[p].pc = "done"
  /\ procs' = [procs EXCEPT ![p] = Idle]
  /\ UNCHANGED <<env, catalog, dbConnections, tenantClients, masterPrisma, handles, now>>

Tick(d) ==
  /\ (now + d) \div IDLE_TIMEOUT <= MaxTicks
  /\ \A p \in Procs : procs[p].pc # "done"
  /\ now' = now + d
  /\ UNCHANGED <<env, catalog, dbConnections, tenantClients, masterPrisma, handles, procs>>

----------------------------------------------------------------------------
Row(t, a) == [id |-> t, isActive |-> a, databaseUrl |-> UrlOf(t)]

\* the environment of a deployment that sets DATABASE_URL only
DefaultEnv ==
  [MASTER_DATABASE_URL |-> EmptyUrl, DATABASE_URL |-> UrlOf("master"),
   POSTGRES_URL |-> EmptyUrl]

\* the module is loaded in environment e: masterDb is constructed, nothing is
\* cached
InitWith(e) ==
  /\ env = e
  /\ dbConnections = <<>>
  /\ tenantClients = <<>>
  /\ masterPrisma = NoHandle
  /\ handles = (MasterDbHandle :> NewClient(masterDbUrl(e)))
  /\ now = 0
  /\ procs = [p \in Procs |-> Idle]

Init ==
  /\ catalog = <<Row("A", TRUE), Row("B", FALSE)>>
  /\ InitWith(DefaultEnv)

Main == <<"p", 1>>
\* the tenants callers ask the catalog for, and those they name with a
\* connection string of their own
CallIds == {"A", "B", "C"}
DirectIds == {"A", "B"}
Outcomes == {"ok", "error", "timeout"}

Next ==
  \/ \E id \in DirectIds : \E url \in {EmptyUrl, BlankUrl, UrlOf(id)} :
       CallGetDatabaseConnection(Main, url, id)
  \/ \E id \in CallIds : CallGetDatabaseFromSession(Main, id, UrlOf(id))
  \/ \E id \in CallIds : CallGetDatabaseById(Main, id)
  \/ \E o \in Outcomes : MasterQuerySettles(Main, o)
  \/ \E o \in Outcomes : ConnectSettles(Main, o)
  \/ CallCleanupStaleConnections(Main)
  \/ \E id \in DirectIds : CallDisconnectDatabase(Main, id)
  \/ BackoffElapses(Main)
  \/ \E o \in {"ok", "error"} : DisconnectSettles(Main, o)
  \/ Reset(Main)
  \/ \E d \in {IDLE_TIMEOUT, IDLE_TIMEOUT + 1} : Tick(d)

Spec == Init /\ [][Next]_vars

\* Both registries and their drains, one call at a time.
NextRegistries ==
  \/ \E id \in DirectIds : CallGetDatabaseConnection(Main, UrlOf(id), id)
  \/ \E o \in Outcomes : ConnectSettles(Main, o)
  \/ BackoffElapses(Main)
  \/ \E id \in CallIds : CallGetPrismaClientByDatabaseId(Main, id)
  \/ \E o \in {"ok", "error"} : InfoSettles(Main, o)
  \/ CallDisconnectAllDatabases(Main)
  \/ \E o \in {"ok", "error"} : DrainMasterSettles(Main, o)
  \/ \E o \in {"ok", "error"} : DrainSettles(Main, o)
  \/ CallDisconnectAllClients(Main)
  \/ \E o \in {"ok", "error"} : ClientsDrainSettles(Main, o)
  \/ Reset(Main)

SpecRegistries == Init /\ [][NextRegistries]_vars

\* The four operations that close connections, one call at a time, with
\* $disconnect free to throw.
NextTeardown ==
  \/ \E id \in DirectIds : CallGetDatabaseConnection(Main, UrlOf(id), id)
  \/ \E o \in {"ok", "error"} : ConnectSettles(Main, o)
  \/ BackoffElapses(Main)
  \/ CallCleanupStaleConnections(Main)
  \/ \E id \in DirectIds : CallDisconnectDatabase(Main, id)
  \/ \E o \in {"ok", "error"} : DisconnectSettles(Main, o)
  \/ CallDisconnectAllDatabases(Main)
  \/ \E o \in {"ok", "error"} : DrainMasterSettles(Main, o)
  \/ \E o \in {"ok", "error"} : DrainSettles(Main, o)
  \/ CallForceCleanupConnections(Main)
  \/ Reset(Main)
  \/ \E d \in {IDLE_TIMEOUT + 1} : Tick(d)

SpecTeardown == Init /\ [][NextTeardown]_vars

\* getDatabaseConnection calls of one caller while another closes
\* connections: disconnectDatabase, the periodic sweep, disconnectAllDatabases.
Closer == <<"p", 2>>

NextClosing ==
  \/ \E id \in DirectIds : CallGetDatabaseConnection(Main, UrlOf(id), id)
  \/ \E o \in {"ok", "error"} : ConnectSettles(Main, o)
  \/ BackoffElapses(Main)
  \/ \E id \in DirectIds : CallDisconnectDatabase(Closer, id)
  \/ CallCleanupStaleConnections(Closer)
  \/ CallDisconnectAllDatabases(Closer)
  \/ \E p \in Callers : \E o \in {"ok", "error"} : DisconnectSettles(p, o)
  \/ \E o \in {"ok", "error"} : DrainMasterSettles(Closer, o)
  \/ \E o \in {"ok", "error"} : DrainSettles(Closer, o)
  \/ \E p \in Callers : Reset(p)
  \/ \E d \in {IDLE_TIMEOUT + 1} : Tick(d)

SpecClosing == Init /\ [][NextClosing]_vars

\* Two callers ask for connections, neither waiting for the other.
NextRace ==
  \/ \E p \in Callers : \E id \in DirectIds : CallGetDatabaseConnection(p, UrlOf(id), id)
  \/ \E p \in Callers : \E o \in Outcomes : ConnectSettles(p, o)
  \/ \E p \in Callers : BackoffElapses(p)

SpecRace == Init /\ [][NextRace]_vars

\* prisma-manager's master client, requested and torn down by two callers
\* neither of which waits for the other's call to return.
NextMaster ==
  \/ \E p \in Callers : CallGetMasterPrismaClient(p)
  \/ \E p \in Callers : CallDisconnectAllClients(p)
  \/ \E p \in Callers : \E o \in {"ok", "error"} : ClientsDrainSettles(p, o)
  \/ \E p \in Callers : Reset(p)

SpecMaster == Init /\ [][NextMaster]_vars

\* One call that waits for a database which may never answer.  Only the timers
\* the code sets are sure to fire: the 10 s and 15 s timers raced against the
\* master queries, the CONNECTION_TIMEOUT timer raced against $connect, and
\* the retry delay.  getDatabaseInfo sets none.
NextTimeouts ==
  \/ \E id \in CallIds : CallGetDatabaseById(Main, id)
  \/ \E id \in CallIds : CallGetDatabaseFromSession(Main, id, UrlOf(id))
  \/ CallExecuteAcrossAllDatabases(Main)
  \/ \E id \in DirectIds : CallGetPrismaClientByDatabaseId(Main, id)
  \/ \E p \in Procs : \E o \in Outcomes : MasterQuerySettles(p, o)
  \/ \E p \in Procs : \E o \in Outcomes : ListSettles(p, o)
  \/ \E p \in Procs : \E o \in {"ok", "error"} : InfoSettles(p, o)
  \/ \E p \in Procs : \E o \in Outcomes : ConnectSettles(p, o)
  \/ \E p \in Procs : BackoffElapses(p)
  \/ \E k \in Workers : \E o \in {"ok", "error"} : QuerySettles(k, o)
  \/ BatchCompletes(Main)

TimersFire ==
  /\ WF_vars(\E p \in Procs : MasterQuerySettles(p, "timeout"))
  /\ WF_vars(\E p \in Procs : ListSettles(p, "timeout"))
  /\ WF_vars(\E p \in Procs : ConnectSettles(p, "timeout"))
  /\ WF_vars(\E p \in Procs : BackoffElapses(p))

SpecTimeouts == Init /\ [][NextTimeouts]_vars /\ TimersFire

\* addConnectionPoolParams applied again and again to its own result, from any
\* connection string and either pool limit.
MaxApply == 2
ParamNames == {"connection_limit", "pool_timeout", "sslmode"}
ParamValues == {"5", "10"}
MaxParams == 2
Queries ==
  UNION {[1..n -> [name : ParamNames, value : ParamValues]] : n \in 0..MaxParams}
Strings ==
  {EmptyUrl, BlankUrl, Malformed("not a url")}
    \cup {[form |-> f, base |-> "db", q |-> q] : f \in {"url", "URL"}, q \in Queries}

\* an idle call record holds the argument (url, i) and the results so far
InitAugment ==
  /\ catalog = <<>>
  /\ env = DefaultEnv
  /\ dbConnections = <<>>
  /\ tenantClients = <<>>
  /\ masterPrisma = NoHandle
  /\ handles = (MasterDbHandle :> NewClient(masterDbUrl(DefaultEnv)))
  /\ now = 0
  /\ \E u \in Strings, n \in {TENANT_CONNECTION_LIMIT, MASTER_CONNECTION_LIMIT} :
       procs = [p \in Procs |->
                  IF p = <<"p", 1>>
                  THEN [Idle EXCEPT !.op = "augment", !.url = u, !.i = n]
                  ELSE Idle]

Augment(p) ==
  /\ procs[p].op = "augment"
  /\ Len(procs[p].results) < MaxApply
  /\ LET r == procs[p].results
         arg == IF r = <<>> THEN procs[p].url ELSE r[Len(r)]
     IN procs' = [procs EXCEPT
                    ![p].results = Append(r, addConnectionPoolParams(arg, procs[p].i))]
  /\ UNCHANGED <<env, catalog, dbConnections, tenantClients, masterPrisma, handles, now>>

NextAugment == Augment(<<"p", 1>>)

SpecAugment == InitAugment /\ [][NextAugment]_vars

\* The module loaded in any environment: each of the three variables is
\* unset, set to white space, or set to a connection string.
Envs ==
  [MASTER_DATABASE_URL : {EmptyUrl, BlankUrl, UrlOf("master-m")},
   DATABASE_URL : {EmptyUrl, BlankUrl, UrlOf("master")},
   POSTGRES_URL : {EmptyUrl, BlankUrl, UrlOf("master-p")}]

InitEnv ==
  /\ catalog = <<Row("A", TRUE), Row("B", FALSE)>>
  /\ \E e \in Envs : InitWith(e)

NextEnv ==
  \/ \E id \in CallIds : CallGetDatabaseById(Main, id)
  \/ \E o \in Outcomes : MasterQuerySettles(Main, o)
  \/ \E id \in DirectIds : CallGetPrismaClientByDatabaseId(Main, id)
  \/ \E o \in {"ok", "error"} : InfoSettles(Main, o)
  \/ \E o \in {"ok", "error"} : ConnectSettles(Main, o)
  \/ BackoffElapses(Main)
  \/ Reset(Main)

SpecEnv == InitEnv /\ [][NextEnv]_vars

\* Callers that hold a connection string of their own, which is not the one
\* the catalog has.
KnownUrl(id) == UrlOf(id \o "-session")

NextSession ==
  \/ \E id \in DirectIds : CallGetDatabaseConnection(Main, KnownUrl(id), id)
  \/ \E id \in CallIds : CallGetDatabaseFromSession(Main, id, KnownUrl(id))
  \/ \E id \in CallIds :
       CallGetAdminDatabaseConnection(Main, [databaseId |-> id, databaseUrl |-> KnownUrl(id)])
  \/ \E o \in Outcomes : MasterQuerySettles(Main, o)
  \/ \E o \in Outcomes : ConnectSettles(Main, o)
  \/ BackoffElapses(Main)
  \/ Reset(Main)

SpecSession == Init /\ [][NextSession]_vars

\* A caller whose connection string for a tenant changes from one call to the
\* next.
NextUrls ==
  \/ \E id \in DirectIds : \E url \in {UrlOf(id), KnownUrl(id)} :
       CallGetDatabaseConnection(Main, url, id)
  \/ \E id \in DirectIds : CallGetDatabaseFromSession(Main, id, KnownUrl(id))
  \/ \E o \in Outcomes : MasterQuerySettles(Main, o)
  \/ \E o \in {"ok", "error"} : ConnectSettles(Main, o)
  \/ BackoffElapses(Main)
  \/ \E o \in {"ok", "error"} : DisconnectSettles(Main, o)
  \/ Reset(Main)
  \/ \E d \in {IDLE_TIMEOUT + 1} : Tick(d)

SpecUrls == Init /\ [][NextUrls]_vars

\* One caller asks for connections and clients while another runs the drains
\* of the two registries.
Drainer == <<"p", 2>>

NextDrainRace ==
  \/ \E id \in DirectIds : CallGetDatabaseConnection(Main, UrlOf(id), id)
  \/ \E o \in {"ok", "error"} : ConnectSettles(Main, o)
  \/ BackoffElapses(Main)
  \/ \E id \in DirectIds : CallGetPrismaClientByDatabaseId(Main, id)
  \/ \E o \in {"ok", "error"} : InfoSettles(Main, o)
  \/ CallDisconnectAllDatabases(Drainer)
  \/ \E o \in {"ok", "error"} : DrainMasterSettles(Drainer, o)
  \/ \E o \in {"ok", "error"} : DrainSettles(Drainer, o)
  \/ CallDisconnectAllClients(Drainer)
  \/ \E o \in {"ok", "error"} : ClientsDrainSettles(Drainer, o)
  \/ \E p \in Callers : Reset(p)

SpecDrainRace == Init /\ [][NextDrainRace]_vars

\* getDatabaseConnection calls of one caller, and one emergency cleanup made
\* by another, whose record is kept.
Forcer == <<"p", 2>>

NextForce ==
  \/ \E id \in DirectIds : CallGetDatabaseConnection(Main, UrlOf(id), id)
  \/ \E o \in Outcomes : ConnectSettles(Main, o)
  \/ BackoffElapses(Main)
  \/ \E o \in {"ok", "error"} : DisconnectSettles(Main, o)
  \/ Reset(Main)
  \/ \E d \in {IDLE_TIMEOUT + 1} : Tick(d)
  \/ CallForceCleanupConnections(Forcer)

SpecForce == Init /\ [][NextForce]_vars

\* A termination signal arrives while a caller uses getDatabaseConnection.
\* The timer of gracefulShutdown
\* fires unless the drain finishes first; no $disconnect has to settle.
Signal == <<"p", 2>>
Exited == procs[Signal].pc = "exited"

NextShutdown ==
  \/ \E id \in DirectIds : CallGetDatabaseConnection(Main, UrlOf(id), id)
  \/ \E o \in {"ok", "error"} : ConnectSettles(Main, o)
  \/ BackoffElapses(Main)
  \/ Reset(Main)
  \/ CallGracefulShutdown(Signal)
  \/ \E o \in {"ok", "error"} : DrainMasterSettles(Signal, o)
  \/ \E o \in {"ok", "error"} : DrainSettles(Signal, o)
  \/ ShutdownTimeout(Signal)

SpecShutdown == Init /\ [][NextShutdown]_vars /\ WF_vars(ShutdownTimeout(Signal))

\* One run of the fan-out over a catalog of four tenants, any of them active.
FanOrder == <<"C", "A", "D", "B">>
FanCatalogs ==
  {[i \in 1..Len(FanOrder) |-> Row(FanOrder[i], a[i])] :
     a \in [1..Len(FanOrder) -> BOOLEAN]}

InitFan ==
  /\ catalog \in FanCatalogs
  /\ InitWith(DefaultEnv)

NextFan ==
  \/ CallExecuteAcrossAllDatabases(Main)
  \/ \E o \in Outcomes : ListSettles(Main, o)
  \/ \E k \in Workers : \E o \in {"ok", "error"} : ConnectSettles(k, o)
  \/ \E k \in Workers : BackoffElapses(k)
  \/ \E k \in Workers : \E o \in {"ok", "error"} : QuerySettles(k, o)
  \/ BatchCompletes(Main)

SpecFan == InitFan /\ [][NextFan]_vars

----------------------------------------------------------------------------
(* Properties.  Me is the call of the one-call-at-a-time specifications;   *)
(* a property of a finished call is stated where the call is "done", when  *)
(* its record still holds what it did and what it began with.              *)

Me == procs[Main]
Done == Me.pc = "done"
Range(f) == {f[i] : i \in DOMAIN f}

\* the call ran getDatabaseConnection (directly or after resolving the tenant)
RanGetDatabaseConnection == Done /\ Me.gdc
Returned == Me.result.ok /\ Me.result.value # NoHandle
ConnectionFailedError == ~Me.result.ok /\ Me.result.error.text = "Failed to connect to database"

\* handles constructed by the call
Constructed == DOMAIN handles \ DOMAIN Me.hs0
\* idle for more than IDLE_TIMEOUT when the inline or periodic sweep scanned
StaleAtScan(e) == Me.tScan - e.lastUsed > IDLE_TIMEOUT

\* The only check of liveness the code makes before it caches or returns a
\* handle is the await of $connect; it issues no query.  Passed is the weakest
\* reading of "has passed a liveness probe": $connect settled successfully.
Passed(h) == handles[h].st = "connected"

\* C1: a call that obtains a connection for a tenant with no registry entry
\* (getDatabaseConnection, getPrismaClientByDatabaseId) returns and caches
\* only a handle that has passed a liveness probe.
C1_ProbedBeforeReturned ==
  /\ (Done /\ Me.op = "getConn" /\ ~Me.hit /\ Returned) => Passed(Me.result.value)
  /\ (Done /\ Me.op = "client" /\ ~MapHas(Me.snapClients, Me.id) /\ Returned)
       => Passed(Me.result.value)

\* C2: a getDatabaseConnection call for a tenant whose entry is not idle for
\* more than IDLE_TIMEOUT returns the cached handle, makes no connect attempt,
\* leaves the handle as it was and sets lastUsed to the clock of the call.
C2_CacheHit ==
  (RanGetDatabaseConnection /\ MapHas(Me.snap, Me.id)
     /\ ~StaleAtScan(MapGet(Me.snap, Me.id)))
  => /\ Me.result = Ok(MapGet(Me.snap, Me.id).client)
     /\ Me.connects = 0
     /\ Constructed = {}
     /\ handles[Me.result.value] = Me.hs0[Me.result.value]
     /\ MapHas(dbConnections, Me.id)
     /\ MapGet(dbConnections, Me.id) =
          [MapGet(Me.snap, Me.id) EXCEPT !.lastUsed = now]

C2_Witness ==
  /\ RanGetDatabaseConnection /\ Me.hit
  /\ MapGet(Me.snap, Me.id).lastUsed < now
  /\ Me.tScan - MapGet(Me.snap, Me.id).lastUsed = IDLE_TIMEOUT

\* C3: a run of cleanupStaleConnections (periodic or inline) calls $disconnect
\* on the handle of every entry idle for more than IDLE_TIMEOUT and removes
\* the entry; a getDatabaseConnection that then succeeds for such a tenant, or
\* for a tenant with no entry, has connected afresh and returns a handle that
\* did not exist before.
C3_SweepThenFreshConnect ==
  /\ ((Done /\ Me.op = "sweep") \/ RanGetDatabaseConnection) =>
       \A i \in 1..Len(Me.snap) :
         StaleAtScan(Me.snap[i]) =>
           /\ handles[Me.snap[i].client].disc = Me.hs0[Me.snap[i].client].disc + 1
           /\ \A j \in 1..Len(dbConnections) :
                dbConnections[j].client # Me.snap[i].client
           /\ Me.snap[i].id # Me.id => ~MapHas(dbConnections, Me.snap[i].id)
  /\ (RanGetDatabaseConnection /\ Returned
        /\ (MapHas(Me.snap, Me.id) => StaleAtScan(MapGet(Me.snap, Me.id))))
     => /\ Me.connects >= 1
        /\ Me.result.value \in Constructed
        /\ \A i \in 1..Len(Me.snap) : Me.snap[i].client # Me.result.value

C3_Witness ==
  /\ RanGetDatabaseConnection /\ Returned
  /\ MapHas(Me.snap, Me.id) /\ StaleAtScan(MapGet(Me.snap, Me.id))

\* C4: through getDatabaseById / getDatabaseFromSession, with the catalog
\* answering: an inactive tenant fails "not active", an absent one fails "not
\* found", neither attempts a connect, constructs a handle or changes the
\* registry; an active tenant never fails with either, and when its call
\* succeeds from an empty registry the registry holds exactly its entry.
Resolved ==
  Done /\ Me.op \in {"byId", "session"}
       /\ Me.result.error.text # "Master database query failed"

C4_InactiveNotFoundActive ==
  Resolved =>
    LET row == findUnique(catalog, Me.id)
        untouched == /\ Me.connects = 0 /\ ~Me.gdc
                     /\ dbConnections = Me.snap /\ handles = Me.hs0
    IN /\ (row # NoRow /\ ~row.isActive) =>
            /\ Me.result = Err(Message("Database is not active"))
            /\ untouched
       /\ row = NoRow =>
            /\ Me.result = Err(Message("Database not found"))
            /\ untouched
       /\ (row # NoRow /\ row.isActive) =>
            /\ Me.gdc
            /\ Returned \/ ConnectionFailedError
            /\ (Returned /\ Me.snap = <<>>) =>
                 /\ Len(dbConnections) = 1
                 /\ dbConnections[1].id = Me.id
                 /\ dbConnections[1].client = Me.result.value

C4_Witness ==
  /\ Resolved /\ Me.id = "B" /\ Me.op = "byId"
  /\ Me.snap = <<>> /\ ~Me.result.ok

\* C5: no call that resolves the tenant through the master catalog
\* (getDatabaseById, getDatabaseFromSession, getPrismaClientByDatabaseId)
\* constructs, caches or returns a connection for a tenant whose row is
\* inactive when it is looked up.
C5_InactiveNeverConnected ==
  (Done /\ Me.op \in {"byId", "session", "client"}
        /\ Me.masterQueries > 0
        /\ findUnique(catalog, Me.id) # NoRow
        /\ ~findUnique(catalog, Me.id).isActive)
  => /\ ~Returned
     /\ Constructed \subseteq {h \in DOMAIN handles : h[1] = "master"}
     /\ dbConnections = Me.snap
     /\ tenantClients = Me.snapClients

\* C6: when no attempt of the retry loop succeeds the loop has gone round
\* exactly MAX_RETRIES times, and the call fails with the tenant identifier,
\* the attempt count and the message of the last failure; no call makes more
\* than MAX_RETRIES attempts.
LastFailure ==
  IF IsBlank(Me.url) THEN "Database URL cannot be empty"
  ELSE IF handles[Me.client].st = "failed" THEN "Can't reach database server"
  ELSE IF handles[Me.client].st = "connecting" THEN "Connection timeout"
  ELSE ""

C6_ExactlyMaxRetries ==
  /\ Me.retryCount <= MAX_RETRIES /\ Me.connects <= MAX_RETRIES
  /\ (RanGetDatabaseConnection /\ ~Me.result.ok) =>
       /\ Me.retryCount = MAX_RETRIES
       /\ Me.connects = (IF IsBlank(Me.url) THEN 0 ELSE MAX_RETRIES)
       /\ Cardinality(Constructed) = Me.connects
       /\ \A h \in Constructed : handles[h].st \in {"failed", "connecting"}
       /\ Me.result.error.text = "Failed to connect to database"
       /\ Me.result.error.id = Me.id
       /\ Me.result.error.attempts = Me.retryCount
       /\ Me.result.error.cause = LastFailure
  /\ (RanGetDatabaseConnection /\ ~Me.hit /\ Me.result.ok) =>
       Me.retryCount < MAX_RETRIES

C6_Witness ==
  /\ RanGetDatabaseConnection /\ ConnectionFailedError
  /\ Me.connects = MAX_RETRIES
  /\ Me.result.error.cause = "Connection timeout"
  /\ \E h \in Constructed : handles[h].st = "failed"

\* C7: when the first two attempts of a call fail and the third succeeds, the
\* call returns the handle the third attempt constructed, and the entry it
\* caches has isConnected = TRUE and retryCount = 0.
C7_ThirdAttemptSucceeds ==
  (RanGetDatabaseConnection /\ Me.result.ok /\ Me.retryCount = 2) =>
    /\ Me.connects = 3
    /\ Cardinality(Constructed) = 3
    /\ Me.result.value \in Constructed
    /\ \A h \in Constructed : h[2] <= Me.result.value[2]
    /\ \A h \in Constructed \ {Me.result.value} :
         handles[h].st \in {"failed", "connecting"}
    /\ handles[Me.result.value].st = "connected"
    /\ MapHas(dbConnections, Me.id)
    /\ MapGet(dbConnections, Me.id) =
         [id |-> Me.id, client |-> Me.result.value, lastUsed |-> now,
          isConnected |-> TRUE, retryCount |-> 0]

C7_Witness ==
  RanGetDatabaseConnection /\ Me.result.ok /\ Me.retryCount = 2

\* C8, as stated: a getDatabaseConnection call that fails leaves the registry
\* exactly as it was when the call started.
C8_FailureLeavesRegistry ==
  (RanGetDatabaseConnection /\ ~Me.result.ok) => dbConnections = Me.snap

\* C8, amended: a getDatabaseConnection call that fails adds no entry and
\* modifies none; the registry it leaves is the registry it started with less
\* the entries its inline sweep found idle for more than IDLE_TIMEOUT.
C8_FailureOnlyEvictsStale ==
  (RanGetDatabaseConnection /\ ~Me.result.ok) =>
    dbConnections = SelectSeq(Me.snap, LAMBDA e : ~StaleAtScan(e))

C8_Witness ==
  /\ RanGetDatabaseConnection /\ ~Me.result.ok
  /\ dbConnections # <<>> /\ dbConnections # Me.snap

\* C9: when a drain (disconnectAllDatabases, disconnectAllClients) has
\* finished, its registry is empty, $disconnect has been called exactly once
\* on every handle cached when it started and on the master handle and on no
\* other handle, whatever $disconnect calls threw, and the drain returns
\* normally.
CalledSince(h) == handles[h].disc - Me.hs0[h].disc

C9_DrainClosesAll ==
  /\ (Done /\ Me.op = "drain") =>
       LET cached == {Me.snap[i].client : i \in 1..Len(Me.snap)} IN
       /\ Me.result.ok
       /\ dbConnections = <<>>
       /\ \A h \in DOMAIN handles :
            CalledSince(h) = (IF h \in cached \cup {MasterDbHandle} THEN 1 ELSE 0)
  /\ (Done /\ Me.op = "clientsDrain") =>
       LET cached == {Me.snapClients[i].client : i \in 1..Len(Me.snapClients)}
                       \cup ({Me.snapMaster} \ {NoHandle}) IN
       /\ Me.result.ok
       /\ tenantClients = <<>>
       /\ masterPrisma = NoHandle
       /\ \A h \in DOMAIN handles :
            CalledSince(h) = (IF h \in cached THEN 1 ELSE 0)

C9_Witness ==
  /\ Done /\ Me.op = "drain" /\ Len(Me.snap) = 2
  /\ \E i \in 1..2 : handles[Me.snap[i].client].st = "closed"
  /\ \E i \in 1..2 : handles[Me.snap[i].client].st # "closed"
  /\ handles[MasterDbHandle].st # "closed"

\* C10: when executeAcrossAllDatabases over a catalog with N active tenants
\* returns, its result has exactly N entries, exactly one for each active
\* tenant.  The entry of a tenant whose connection failed (every attempt) or
\* whose operation failed carries an error and a null result; the entry of
\* every other tenant carries no error and the result of that tenant's own
\* operation, which ran exactly once on that tenant's connected handle.
HandlesOf(t) == {h \in TenantHandles(handles) : h[1] = t}
ConnectedOf(t) == {h \in HandlesOf(t) : handles[h].st = "connected"}
ConnectionFailedFor(t) ==
  /\ ConnectedOf(t) = {}
  /\ Cardinality(HandlesOf(t)) = MAX_RETRIES
OperationFailedFor(t) == \E h \in ConnectedOf(t) : handles[h].queries = <<"error">>

C10_OneEntryPerTenant ==
  (Done /\ Me.op = "fanout" /\ Me.result.ok) =>
    LET active == {r.id : r \in Range(findManyActive(catalog))}
        results == Me.results
    IN /\ Len(results) = Cardinality(active)
       /\ \A t \in active :
            Cardinality({i \in 1..Len(results) : results[i].databaseId = t}) = 1
       /\ \A i \in 1..Len(results) :
            LET e == results[i]
                t == e.databaseId
            IN IF ConnectionFailedFor(t) \/ OperationFailedFor(t)
               THEN e.error # "" /\ e.result = NoHandle
               ELSE /\ e.error = ""
                    /\ ConnectedOf(t) = {e.result}
                    /\ handles[e.result].queries = <<"ok">>

\* four active tenants: in the first batch one tenant's connection fails and
\* another's operation fails, the third succeeds, and so does the tenant of
\* the second batch
C10_Witness ==
  /\ Done /\ Me.op = "fanout" /\ Me.result.ok
  /\ Len(Me.results) = Len(FanOrder)
  /\ ConnectionFailedFor(FanOrder[1])
  /\ OperationFailedFor(FanOrder[2])
  /\ Me.results[3].error = ""
  /\ Me.results[4].error = ""

\* C11: the i-th entry of the result of executeAcrossAllDatabases is the entry
\* of the i-th tenant of the list getAllActiveDatabases returned, in whatever
\* order the callbacks settled.
C11_ResultsInListOrder ==
  (Done /\ Me.op = "fanout" /\ Me.result.ok) =>
    LET listed == findManyActive(catalog) IN
    /\ Len(Me.results) = Len(listed)
    /\ \A i \in 1..Len(listed) : Me.results[i].databaseId = listed[i].id

\* a run over four tenants in which a callback settled after one later in
\* its batch
C11_Witness ==
  /\ Done /\ Me.op = "fanout" /\ Me.result.ok
  /\ Len(Me.results) = Len(FanOrder)
  /\ Me.overtaken

\* C12: forceCleanupConnections empties the registry in the step in which it
\* starts, before any close; a getDatabaseConnection lookup made after it
\* has started is never answered from the cache with a handle that was
\* cached when it started.
Force == procs[Forcer]
CachedWhenForced == {Force.snap[i].client : i \in 1..Len(Force.snap)}

C12_ForceClearsFirst ==
  [][/\ (Force.op # "force" /\ Force'.op = "force") => dbConnections' = <<>>
     /\ (Force.op = "force" /\ ~Me.hit /\ Me'.hit)
          => Me'.result.value \notin CachedWhenForced]_vars

\* after a force cleanup that found a tenant cached, a lookup of that tenant is
\* answered from the cache, with a handle cached since
C12_Witness ==
  /\ Force.op = "force" /\ Force.snap # <<>>
  /\ Done /\ Me.hit /\ Returned
  /\ Me.id \in {Force.snap[i].id : i \in 1..Len(Force.snap)}

\* C13: gracefulShutdown first runs disconnectAllDatabases (the master's
\* $disconnect is its first step); forceCleanupConnections has run at exit
\* if and only if the timer fired (the drain never raises); a clean exit
\* comes only after every disconnect of the drain has settled, a forced one
\* after the force cleanup has emptied the registry; and once the signal has
\* arrived the exit is always reached, whether or not any $disconnect settles.
Shutdown == procs[Signal]

C13_ShutdownAlwaysExits ==
  /\ [][(Shutdown.op # "shutdown" /\ Shutdown'.op = "shutdown")
          => /\ Shutdown'.pc = "drainMaster"
             /\ handles'[MasterDbHandle].disc = handles[MasterDbHandle].disc + 1
             /\ ~Shutdown'.forced]_vars
  /\ [](Exited => /\ Shutdown.forced <=> Shutdown.timedOut
                  /\ ~Shutdown.forced => Shutdown.pending = {} /\ Shutdown.result.ok
                  /\ Shutdown.forced => dbConnections = <<>>)
  /\ (Shutdown.op = "shutdown") ~> Exited

\* the process has exited through the timer and the force cleanup while a
\* $disconnect of the drain was still outstanding
C13_Witness ==
  /\ Exited /\ Shutdown.forced
  /\ Shutdown.pending # {}
  /\ Shutdown.snap # <<>>

NoneSet == \A i \in 1..Len(EnvNames) : env[EnvNames[i]].form = "empty"
ConfigurationError ==
  /\ ~Me.result.ok
  /\ Me.result.error.text \in {"Master database URL is not configured",
                               "DATABASE_URL environment variable is not set."}

C15_UnconfiguredFailsAtFirstUse ==
  (NoneSet /\ Done /\ Me.op \in {"byId", "session", "client", "fanout"}) =>
    /\ ConfigurationError
    /\ Me.masterQueries = 0
    /\ MasterDbHandle \notin DOMAIN handles
    /\ masterPrisma = NoHandle

\* C16: addConnectionPoolParams is idempotent: applied to its own result
\* with the same limit it returns that result.
C16_AugmentIdempotent ==
  (Me.op = "augment") =>
    \A k \in 2..Len(Me.results) : Me.results[k] = Me.results[1]

\* a URL that the first application rewrites: not normalised, and naming
\* connection_limit twice with other values
C16_Witness ==
  /\ Me.op = "augment" /\ Len(Me.results) >= 2
  /\ Me.url.form = "URL"
  /\ Len(Me.url.q) = 2
  /\ \A i \in 1..2 : Me.url.q[i].name = "connection_limit"
  /\ Me.results[1] # Me.url
  /\ Len(Me.results[1].q) = 4

\* C17: addConnectionPoolParams never throws; an empty or blank string and a
\* string that is not a URL are returned as they are.
C17_AugmentNeverThrows ==
  (Me.op = "augment") =>
    /\ \A k \in 1..Len(Me.results) : Me.results[k] # Thrown
    /\ (Me.results # <<>> /\ Me.url.form \in {"empty", "blank", "malformed"})
         => Me.results[1] = Me.url

C17_Witness ==
  /\ Me.op = "augment" /\ Me.results # <<>>
  /\ Me.url.form = "malformed"
  /\ Me.results[1] = Me.url

\* C18: every master-catalog query (of getDatabaseFromSession,
\* getDatabaseById, getAllActiveDatabases, getDatabaseInfo) and every connect
\* attempt ends with a result or a timeout error even if the database never
\* answers, so no call waits on one for ever; and no call makes a second
\* catalog query after the first has failed or timed out.
WaitsOn(p, pc) == procs[p].pc = pc

C18_EveryWaitEnds ==
  /\ [](\A p \in Procs : procs[p].masterQueries <= 1)
  /\ \A p \in Procs :
       /\ WaitsOn(p, "masterWait") ~> ~WaitsOn(p, "masterWait")
       /\ WaitsOn(p, "listWait") ~> ~WaitsOn(p, "listWait")
       /\ WaitsOn(p, "connectWait") ~> ~WaitsOn(p, "connectWait")
       /\ WaitsOn(p, "infoWait") ~> ~WaitsOn(p, "infoWait")

\* C19: over any calls of getMasterPrismaClient and disconnectAllClients, a
\* request made while a master handle is set returns that handle and
\* constructs nothing; a request made while none is set (before the first
\* request, or after a teardown has reset it) constructs one and sets it; and
\* at no time do two master handles exist on which no teardown has called
\* $disconnect.
MasterHandles == {h \in DOMAIN handles : h[1] = "master"}
NotTornDown == {h \in MasterHandles : handles[h].disc = 0}

C19_MasterSingleton ==
  /\ [](Cardinality(NotTornDown) <= 1)
  /\ [][(Me.op # "master" /\ Me'.op = "master" /\ Me'.result.ok) =>
          IF masterPrisma # NoHandle
          THEN /\ Me'.result.value = masterPrisma
               /\ handles' = handles
               /\ masterPrisma' = masterPrisma
          ELSE /\ Me'.result.value \notin DOMAIN handles
               /\ Me'.result.value \in DOMAIN handles'
               /\ masterPrisma' = Me'.result.value]_vars

\* C20: when two getDatabaseConnection calls for the same tenant, which has
\* no entry, overlap (each starts before the other has written the entry, so
\* both miss), the two calls return different handles, both connected; the
\* registry then holds exactly one entry for the tenant, its handle is the
\* one written last, and no entry refers to the one written first.
Other == procs[<<"p", 2>>]
BothMissed ==
  /\ Me.pc = "done" /\ Other.pc = "done"
  /\ Me.gdc /\ Other.gdc /\ Me.id = Other.id
  /\ Me.result.ok /\ Other.result.ok
  /\ ~Me.hit /\ ~Other.hit

C20_LastWriteWins ==
  BothMissed =>
    LET first == IF Me.replaced = NoHandle THEN Me ELSE Other
        last == IF Me.replaced = NoHandle THEN Other ELSE Me
    IN /\ Me.result.value # Other.result.value
       /\ handles[Me.result.value].st = "connected"
       /\ handles[Other.result.value].st = "connected"
       /\ first.replaced = NoHandle
       /\ last.replaced = first.result.value
       /\ Cardinality({i \in 1..Len(dbConnections) : dbConnections[i].id = Me.id}) = 1
       /\ MapGet(dbConnections, Me.id).client = last.result.value
       /\ \A i \in 1..Len(dbConnections) : dbConnections[i].client # first.result.value

\* the call that started first wrote last
C20_Witness ==
  /\ BothMissed
  /\ Me.result.value[2] < Other.result.value[2]
  /\ Me.replaced = Other.result.value
  /\ MapGet(dbConnections, Me.id).client = Me.result.value
\* C21: executeAcrossAllDatabases fetches the list of active tenants once;
\* the callbacks run in consecutive batches of at most batchSize, never more
\* than batchSize are in flight, and no callback of a batch starts before
\* every callback of the batch before it has settled.
InFlight == {k \in Workers : procs[k].pc \notin {"idle", "done"}}
Starts(k) == procs'[k].pc # "idle" /\ procs'[k].row # procs[k].row

C21_BatchesOfThree ==
  [][/\ Me'.pc = "listWait" => Me.pc = "idle"
     /\ Me'.op = "fanout" => Me'.masterQueries = 1
     /\ Cardinality(InFlight') <= batchSize
     /\ Me'.pc = "batchWait" =>
          /\ Me'.i % batchSize = 0
          /\ Me'.list = findManyActive(catalog)
          /\ \A k \in Workers :
               IF Me'.i + k[2] <= Len(Me'.list)
               THEN /\ procs'[k].pc # "idle"
                    /\ procs'[k].row = Me'.list[Me'.i + k[2]]
               ELSE procs'[k].pc = "idle"
     /\ \A k \in Workers :
          Starts(k) => \A j \in Workers : procs[j].pc \in {"idle", "done"}
    ]_vars

\* the second batch is running after a first batch of batchSize callbacks of
\* which one ended with an error
C21_Witness ==
  /\ Me.op = "fanout" /\ Me.pc = "batchWait"
  /\ Me.i = batchSize
  /\ Len(Me.results) = batchSize
  /\ \E j \in 1..batchSize : Me.results[j].error # ""
  /\ InFlight = {<<"w", 1>>}

\* C22: inside one getDatabaseConnection call the wait that follows the k-th
\* failed attempt (k = 1, 2) is k * RETRY_DELAY; there is no wait before the
\* first attempt and none after the last failed one.
WaitsOf(p) ==
  IF procs[p].pc = "backoff" THEN procs[p].retryCount - 1
  ELSE Min({procs[p].retryCount, MAX_RETRIES - 1})

C22_LinearBackoff ==
  \A p \in Procs :
    LET me == procs[p] IN
    /\ Len(me.waits) = WaitsOf(p)
    /\ \A k \in 1..Len(me.waits) : me.waits[k] = k * RETRY_DELAY

\* a call whose three attempts all failed: it waited once and then twice
\* RETRY_DELAY
C22_Witness ==
  /\ RanGetDatabaseConnection /\ ConnectionFailedError
  /\ Me.connects = MAX_RETRIES
  /\ Me.waits = <<RETRY_DELAY, 2 * RETRY_DELAY>>

\* C23: a getDatabaseConnection call for a tenant that is not cached, made
\* with an empty or whitespace-only connection string, resolves the string
\* from the master catalog by the tenant's identifier; the empty string
\* causes no connection-failed error by itself.
C23_EmptyUrlResolved ==
  (RanGetDatabaseConnection /\ Me.op = "getConn" /\ IsBlank(Me.url) /\ ~Me.hit) =>
    /\ Me.masterQueries = 1
    /\ ~(ConnectionFailedError
         /\ Me.result.error.cause = "Database URL cannot be empty")

\* C24: when forceCleanupConnections has returned, $disconnect has been
\* called on every handle that was in the registry when it was called.
C24_ForceDisconnectsAll ==
  (Force.op = "force" /\ Force.pc = "done") =>
    \A h \in CachedWhenForced : handles[h].disc > Force.hs0[h].disc

\* C25: wherever a master handle is constructed (the module's masterDb,
\* getMasterPrismaClient), its connection string is the value of the first of
\* MASTER_DATABASE_URL, DATABASE_URL, POSTGRES_URL that is set and not blank;
\* a usable value in a later variable is used when the earlier ones are unset
\* or blank.
Usable == {i \in 1..Len(EnvNames) : ~IsBlank(env[EnvNames[i]])}
FirstUsable == env[EnvNames[Min(Usable)]]

C25_FirstSetVariableWins ==
  Usable # {} =>
    /\ handles[MasterDbHandle].url.base = FirstUsable.base
    /\ masterPrisma # NoHandle => handles[masterPrisma].url.base = FirstUsable.base
    /\ (Done /\ Me.op = "client") => ~ConfigurationError

\* C26: a run of cleanupStaleConnections removes, and calls $disconnect on,
\* exactly the entries idle for more than IDLE_TIMEOUT at its scan; every
\* other entry stays in the registry with the fields it had, and its handle
\* is as it was.
StaleClients == {Me.snap[i].client : i \in {j \in 1..Len(Me.snap) : StaleAtScan(Me.snap[j])}}

C26_SweepTouchesOnlyStale ==
  (Done /\ Me.op = "sweep") =>
    /\ dbConnections = SelectSeq(Me.snap, LAMBDA e : ~StaleAtScan(e))
    /\ \A h \in DOMAIN Me.hs0 :
         IF h \in StaleClients
         THEN handles[h].disc = Me.hs0[h].disc + 1
         ELSE handles[h] = Me.hs0[h]
    /\ DOMAIN handles = DOMAIN Me.hs0

\* a sweep that found one entry stale and another not
C26_Witness ==
  /\ Done /\ Me.op = "sweep"
  /\ Len(Me.snap) = 2
  /\ Len(dbConnections) = 1
  /\ handles[dbConnections[1].client].st = "connected"

\* C27: cleanupStaleConnections, disconnectDatabase, disconnectAllDatabases
\* and forceCleanupConnections never raise; when a $disconnect throws, the
\* entry is removed all the same and the entries after it are still
\* processed.
Targets ==
  CASE Me.op = "sweep" -> StaleClients
    [] Me.op = "disc" -> {Me.snap[i].client : i \in {j \in 1..Len(Me.snap) : Me.snap[j].id = Me.id}}
    [] OTHER -> {Me.snap[i].client : i \in 1..Len(Me.snap)}

C27_TeardownNeverRaises ==
  /\ (Done /\ Me.op \in {"sweep", "disc", "drain", "force"}) =>
       /\ Me.result.ok
       /\ \A i \in 1..Len(dbConnections) : dbConnections[i].client \notin Targets
       /\ Me.op # "force" =>
            \A h \in Targets : handles[h].disc = Me.hs0[h].disc + 1
  /\ RanGetDatabaseConnection => (Me.result.ok \/ ConnectionFailedError)

\* a drain of two entries: the $disconnect of one threw, the other handle is
\* closed, and both entries are gone
C27_Witness ==
  /\ Done /\ Me.op = "drain" /\ Me.result.ok
  /\ Len(Me.snap) = 2
  /\ dbConnections = <<>>
  /\ \E h \in Targets : handles[h].st = "connected"
  /\ \E h \in Targets : handles[h].st = "closed"

\* C28: in every reachable state, whatever the interleaving, a tenant handle
\* constructed by getDatabaseConnection that is connected and on which no
\* $disconnect has been called is the handle of some registry entry.
Cached == {dbConnections[i].client : i \in 1..Len(dbConnections)}

C28_NoOrphanHandles ==
  \A h \in TenantHandles(handles) :
    (handles[h].st = "connected" /\ handles[h].disc = 0) => h \in Cached

\* C29: getDatabaseConnection never answers a lookup from the cache with a
\* handle on which a $disconnect has already been called, whatever
\* disconnectDatabase, cleanupStaleConnections or disconnectAllDatabases call
\* is in flight.
C29_NeverServesClosingHandle ==
  [][\A p \in Callers :
       (~procs[p].hit /\ procs'[p].hit) =>
         handles'[procs'[p].result.value].disc = 0]_vars

\* C30: in every reachable state every registry entry has isConnected = TRUE
\* and retryCount = 0, and no call is in the eviction branch that
\* getDatabaseConnection takes for an entry found not connected.
C30_EntriesAlwaysConnected ==
  /\ \A i \in 1..Len(dbConnections) :
       dbConnections[i].isConnected /\ dbConnections[i].retryCount = 0
  /\ \A p \in Procs : procs[p].pc # "evictWait"

\* a lookup answered from a registry of two entries, for a tenant whose
\* entry an earlier call stored after a failed attempt
C30_Witness ==
  /\ RanGetDatabaseConnection /\ Me.hit
  /\ Len(dbConnections) = 2
  /\ Me.result.value[2] > 1

\* C31, as claimed: every handle getDatabaseConnection returns was constructed
\* for the connection string passed in that same call.
SuppliedUrl == addConnectionPoolParams(Me.url, TENANT_CONNECTION_LIMIT)

C31_ReturnedForSuppliedUrl ==
  (RanGetDatabaseConnection /\ Returned) =>
    handles[Me.result.value].url = SuppliedUrl

\* C31, amended: the connection string of a call is used only when the call
\* connects.  A call that finds an entry for the tenant, not idle for more
\* than IDLE_TIMEOUT, returns that entry's handle, which stays connected to
\* the string of the call that stored it, whatever string this call passed;
\* any other call that returns, returns a handle it constructed for its own
\* string.
CachedFresh ==
  MapHas(Me.snap, Me.id) /\ ~StaleAtScan(MapGet(Me.snap, Me.id))

C31_UrlUsedOnlyOnMiss ==
  (RanGetDatabaseConnection /\ Returned) =>
    IF CachedFresh
    THEN /\ Me.hit
         /\ Me.result.value = MapGet(Me.snap, Me.id).client
         /\ handles[Me.result.value].url = Me.hs0[Me.result.value].url
    ELSE /\ ~Me.hit
         /\ Me.result.value \in Constructed
         /\ handles[Me.result.value].url = SuppliedUrl

\* a call answered from the cache with a handle connected to another string
\* than the one it passed
C31_Witness ==
  /\ RanGetDatabaseConnection /\ Returned /\ Me.hit
  /\ handles[Me.result.value].url # SuppliedUrl

\* C32: while getPrismaClientByDatabaseId and getDatabaseConnection calls
\* interleave with a running drain (disconnectAllClients,
\* disconnectAllDatabases), every handle a step of the drain removes from its
\* cache has had $disconnect called on it, and the cache is empty when the
\* drain returns.
Drain == procs[Drainer]
CachedClients == {tenantClients[i].client : i \in 1..Len(tenantClients)}

C32_DrainLosesNothing ==
  [][/\ Drain' # Drain =>
          \A h \in (Cached \ Cached') \cup (CachedClients \ CachedClients') :
            handles'[h].disc > 0
     /\ (Drain.pc # "done" /\ Drain'.pc = "done" /\ Drain'.op = "drain")
          => dbConnections' = <<>>
     /\ (Drain.pc # "done" /\ Drain'.pc = "done" /\ Drain'.op = "clientsDrain")
          => tenantClients' = <<>>
    ]_vars

====
